---------------------------- MODULE Spec2Model ----------------------------
(***************************************************************************)
(* A model of fibsem_tools.metadata: the STTransform value object          *)
(* (transform.py) and the COSEM multiscale metadata builders (cosem.py).   *)
(*                                                                         *)
(* Every operation of the package is a pure, synchronous function.  The    *)
(* state of the model is the call in progress: the operation applied       *)
(* last, its arguments, the STTransform instance it was applied to, and    *)
(* what it returned or raised.  Each specification draws the inputs of a   *)
(* family of operations in its initial states and applies the operations   *)
(* in its actions.                                                         *)
(*                                                                         *)
(* Numbers: coordinates, translations and scales are floats in the code;   *)
(* the model uses integers, which floats represent exactly, so that        *)
(* a + k*s - a = s holds as it does for such floats.                       *)
(***************************************************************************)
EXTENDS Integers, Sequences, FiniteSets, TLC

VARIABLES op, args, self, ret

vars == <<op, args, self, ret>>

---------------------------------------------------------------------------
(* Bounds of the model. *)

\* the largest number of axes of a transform, and of coordinates of an array
MaxDims == 2
\* the largest extent of a shape handed to to_coords
MaxSize == 3
\* the largest number of samples of a coordinate sequence handed to inference
MaxLen == 3

\* Dimension names, by position: xarray keeps the dimension names of an array
\* distinct.
DimOrder == <<"z", "y", "x", "w">>
UnitNames == {"nm", "um"}
TranslateVals == {0, 1}
\* 0 is a scale the constructor accepts and inference rejects
ScaleVals == {0, 1, 2}
\* the field is Optional[Literal["C", "F"]]: "<None>" stands for Python's None
Orders == {"C", "F", "<None>"}
\* the sample values of the coordinates handed to inference
CoordVals == {1, 3}

---------------------------------------------------------------------------
(* Values. *)

\* Python's None, and the value of a variable that holds nothing yet.
None == [tag |-> "None"]

Ok(v) == [tag |-> "ok", val |-> v]
Raise(e) == [tag |-> e]
IsOk(r) == r.tag = "ok"
IsError(r) == r.tag \notin {"ok", "None"}

SeqsUpTo(S, n) == UNION {[1..k -> S] : k \in 0..n}

Reversed(s) == [i \in 1..Len(s) |-> s[Len(s) + 1 - i]]

Abs(x) == IF x < 0 THEN -x ELSE x

\* A 1-D DataArray used as a coordinate: its single dimension name, its attrs
\* (only "units" is read; NoUnits when the attribute is absent) and its values.
NoUnits == "<absent>"
Coord(dim, units, values) == [dim |-> dim, units |-> units, values |-> values]

\* the "units" attribute of a coordinate handed to inference, or its absence
CoordUnits == {NoUnits, "nm"}

---------------------------------------------------------------------------
(* transform.py *)

\* class STTransform: the fields of an instance.
STTransform(order, axes, units, translate, scale) ==
    [order |-> order, axes |-> axes, units |-> units,
     translate |-> translate, scale |-> scale]

\* The validator with the scale's length left out of the comparison.
validate_argument_length_no_scale(values) ==
    IF ~(Len(values.axes) = Len(values.units)
         /\ Len(values.units) = Len(values.translate))
    THEN Raise("ValidationError")
    ELSE Ok(values)

\* The root validator: the four per-axis sequences must have one length.
validate_argument_length(values) ==
    IF ~(Len(values.axes) = Len(values.units)
         /\ Len(values.units) = Len(values.translate)
         /\ Len(values.translate) = Len(values.scale))
    THEN Raise("ValidationError")
    ELSE Ok(values)

\* cls(axes=..., units=..., translate=..., scale=..., order=...): pydantic
\* builds the instance and runs the root validator on it.
Construct(order, axes, units, translate, scale) ==
    validate_argument_length(STTransform(order, axes, units, translate, scale))

\* fibsem_tools.io.xr.stt_coord: a coordinate of `length` samples
\* translate + k * scale, k = 0 .. length - 1, along `dim`, with unit `unit`.
stt_coord(length, dim, scale, translate, unit) ==
    Coord(dim, unit, [k \in 1..length |-> translate + (k - 1) * scale])

\* to_coords with the two branches on the order exchanged.
to_coords_branches_exchanged(t, shape) ==
    LET axes == IF t.order = "C" THEN Reversed(t.axes) ELSE t.axes
    IN  [idx \in 1..Len(axes) |->
            stt_coord(shape[idx], axes[idx], t.scale[idx], t.translate[idx],
                      t.units[idx])]

\* STTransform.to_coords: the axis names are walked forwards (order "C") or
\* reversed (order "F"); shape, scale, translate and units are indexed by the
\* position idx in that walk.
to_coords(t, shape) ==
    LET axes == IF t.order = "C" THEN t.axes ELSE Reversed(t.axes)
    IN  [idx \in 1..Len(axes) |->
            stt_coord(shape[idx], axes[idx], t.scale[idx], t.translate[idx],
                      t.units[idx])]

\* The loop body of from_coords without its assert (python -O, or the
\* statement dropped): a zero spacing is appended like any other.
CoordCheck_no_assert(c) ==
    IF Len(c.values) < 2 THEN "ValueError" ELSE "ok"

\* One pass of the loop of from_coords over a coordinate c: the error it
\* raises, or "ok".
CoordCheck(c) ==
    IF Len(c.values) < 2 THEN "ValueError"
    ELSE IF ~(Abs(c.values[2] - c.values[1]) > 0) THEN "AssertionError"
    ELSE "ok"

\* The index of the first coordinate at which the loop of from_coords raises,
\* 0 when it runs to its end.
FirstFailure(coords) ==
    IF \E i \in 1..Len(coords) : CoordCheck(coords[i]) # "ok"
    THEN CHOOSE i \in 1..Len(coords) :
            /\ CoordCheck(coords[i]) # "ok"
            /\ \A j \in 1..(i - 1) : CoordCheck(coords[j]) = "ok"
    ELSE 0

\* Inferred taking the spacing over the whole extent of a coordinate, from its
\* first sample to its last.
Inferred_whole_extent(coords, order) ==
    Construct(
        order,
        [i \in 1..Len(coords) |-> coords[i].dim],
        [i \in 1..Len(coords) |->
            IF coords[i].units = NoUnits THEN "m" ELSE coords[i].units],
        [i \in 1..Len(coords) |-> coords[i].values[1]],
        [i \in 1..Len(coords) |->
            Abs(coords[i].values[Len(coords[i].values)] - coords[i].values[1])])

\* The lists axes, units, translate and scale the loop of from_coords has built
\* when it ends, handed to the constructor.
Inferred(coords, order) ==
    Construct(
        order,
        [i \in 1..Len(coords) |-> coords[i].dim],
        [i \in 1..Len(coords) |->
            IF coords[i].units = NoUnits THEN "m" ELSE coords[i].units],
        [i \in 1..Len(coords) |-> coords[i].values[1]],
        [i \in 1..Len(coords) |->
            Abs(coords[i].values[2] - coords[i].values[1])])

\* from_coords passing over a coordinate that is too short instead of raising.
from_coords_skip_short(coords, order) ==
    LET long == SelectSeq(coords, LAMBDA c : Len(c.values) >= 2)
        f == FirstFailure(long)
    IN  IF f # 0 THEN Raise(CoordCheck(long[f])) ELSE Inferred(long, order)

\* STTransform.from_coords
from_coords(coords, order) ==
    LET f == FirstFailure(coords)
    IN  IF f # 0 THEN Raise(CoordCheck(coords[f])) ELSE Inferred(coords, order)

\* A DataArray: its coordinates, one per dimension and in dimension order
\* (array.coords.values()), and the chunking of its data (None when the data is
\* not chunked).  Its shape is the lengths of its coordinates.
DataArray(coords, chunks) == [coords |-> coords, chunks |-> chunks]

\* array.chunks of an array whose data is chunked in blocks of shape c
Chunked(c) == [tag |-> "chunks", val |-> c]

ShapeOf(array) == [i \in 1..Len(array.coords) |-> Len(array.coords[i].values)]

\* from_xarray with the coordinates reversed but the order left at "C".
from_xarray_order_not_set(array, reverse_axes) ==
    from_coords(IF reverse_axes THEN Reversed(array.coords) ELSE array.coords,
                "C")

\* STTransform.from_xarray: the coordinates sliced by orderer, which is
\* slice(None), or slice(-1, None, -1) when reverse_axes is set.
from_xarray(array, reverse_axes) ==
    LET orderer(s) == IF reverse_axes THEN Reversed(s) ELSE s
        output_order == IF reverse_axes THEN "F" ELSE "C"
    IN  from_coords(orderer(array.coords), output_order)

---------------------------------------------------------------------------
(* cosem.py *)

\* A "paths" or "chunks" argument: the literal "auto", or an explicit list.
Auto == [kind |-> "auto"]
Explicit(list) == [kind |-> "explicit", list |-> list]

\* Python values whose type decides a validation: a str and a tuple of ints.
PyStr(x) == [type |-> "str", v |-> x]
PyTuple(x) == [type |-> "tuple", v |-> x]

\* An ordered mapping of scale name -> DataArray (a dict): its keys and its
\* values, in insertion order.
Dict(keys, values) == [keys |-> keys, values |-> values]

\* The index of the first result of rs that is an error, 0 if none is.
FirstError(rs) ==
    IF \E i \in 1..Len(rs) : ~IsOk(rs[i])
    THEN CHOOSE i \in 1..Len(rs) :
            ~IsOk(rs[i]) /\ \A j \in 1..(i - 1) : IsOk(rs[j])
    ELSE 0

Min(a, b) == IF a < b THEN a ELSE b

\* normalize_paths numbering the automatic names from 1.
normalize_paths_from_one(arrays, paths) ==
    IF paths.kind = "auto"
    THEN [i \in 1..Len(arrays) |-> "s" \o ToString(i)]
    ELSE paths.list

\* normalize_paths: f"s{idx}" for idx in range(len(arrays)), or the list given.
normalize_paths(arrays, paths) ==
    IF paths.kind = "auto"
    THEN [i \in 1..Len(arrays) |-> "s" \o ToString(i - 1)]
    ELSE paths.list

ScaleMetaV1(path, transform) == [path |-> path, transform |-> transform]
MultiscaleMetaV1(name, datasets) == [name |-> name, datasets |-> datasets]
MultiscaleMetaV2(name, datasets) == [name |-> name, datasets |-> datasets]

\* CosemGroupMetadataV1.from_xarrays naming the datasets s0, s1, ... by position
\* instead of by the keys of the dict.
CosemGroupMetadataV1_from_xarrays_auto_named(arrays, name) ==
    LET n == Len(arrays.keys)
        ts == [i \in 1..n |-> from_xarray(arrays.values[i], FALSE)]
        f == FirstError(ts)
    IN  IF f # 0 THEN ts[f]
        ELSE Ok([multiscales |->
                  <<MultiscaleMetaV1(
                      name,
                      [i \in 1..n |->
                        ScaleMetaV1("s" \o ToString(i - 1), ts[i].val)])>>])

\* CosemGroupMetadataV1.from_xarrays catching the error of an inference and
\* leaving that array out of the datasets.
CosemGroupMetadataV1_from_xarrays_skip_failed(arrays, name) ==
    LET n == Len(arrays.keys)
        ts == [i \in 1..n |-> from_xarray(arrays.values[i], FALSE)]
        good == SelectSeq([i \in 1..n |-> i], LAMBDA i : IsOk(ts[i]))
    IN  Ok([multiscales |->
              <<MultiscaleMetaV1(
                  name,
                  [j \in 1..Len(good) |->
                    ScaleMetaV1(arrays.keys[good[j]], ts[good[j]].val)])>>])

\* CosemGroupMetadataV1.from_xarrays: one ScaleMetaV1 per item of the dict, in
\* its order; the first inference that raises ends the call.
CosemGroupMetadataV1_from_xarrays(arrays, name) ==
    LET n == Len(arrays.keys)
        ts == [i \in 1..n |-> from_xarray(arrays.values[i], FALSE)]
        f == FirstError(ts)
    IN  IF f # 0 THEN ts[f]
        ELSE Ok([multiscales |->
                  <<MultiscaleMetaV1(
                      name,
                      [i \in 1..n |-> ScaleMetaV1(arrays.keys[i], ts[i].val)])>>])

\* CosemGroupMetadataV2.from_xarrays
CosemGroupMetadataV2_from_xarrays(arrays, paths, name) ==
    LET p == normalize_paths(arrays, paths)
    IN  Ok([multiscales |-> <<MultiscaleMetaV2(name, p)>>])

\* CosemMultiscaleArray.from_xarray(array, chunks=chunks): the transform is
\* inferred, then ArraySpec.from_array builds the specification, whose chunks
\* must be a tuple of ints.
CosemMultiscaleArray_from_xarray(array, chunks) ==
    LET t == from_xarray(array, FALSE)
    IN  IF ~IsOk(t) THEN t
        ELSE IF chunks.type # "tuple" THEN Raise("ValidationError")
        ELSE Ok([shape |-> ShapeOf(array), chunks |-> chunks.v,
                 attributes |-> [transform |-> t.val]])

\* An element of the collection handed to normalize_chunks is a DataArray;
\* iterating a dict yields its keys, which are str and have no chunking or
\* shape to read.
IsDataArray(a) == "coords" \in DOMAIN a

\* fibsem_tools.io.util.normalize_chunks: an explicit list must have one entry
\* per array; "auto" inherits the chunking of an array whose data is chunked
\* and takes the full shape of one whose data is not, and fails on an element
\* that is not an array.
normalize_chunks(arrays, chunks) ==
    IF chunks.kind = "auto"
    THEN IF \E i \in 1..Len(arrays) : ~IsDataArray(arrays[i])
         THEN Raise("AttributeError")
         ELSE Ok([i \in 1..Len(arrays) |->
                    IF arrays[i].chunks.tag = "chunks" THEN arrays[i].chunks.val
                    ELSE ShapeOf(arrays[i])])
    ELSE IF Len(chunks.list) # Len(arrays) THEN Raise("ValidationError")
    ELSE Ok(chunks.list)

\* The dict comprehension {key: CosemMultiscaleArray.from_xarray(arr,
\* chunks=cnks) for arr, cnks, key in zipped} followed by
\* cls(attributes=attrs, members=array_specs), whose members must be keyed by
\* str.  A key that occurs twice keeps its last value.
GroupOf(attrs, zipped) ==
    LET specs == [i \in 1..Len(zipped) |->
                    CosemMultiscaleArray_from_xarray(zipped[i].arr,
                                                     zipped[i].cnks)]
        f == FirstError(specs)
        last(k) == CHOOSE i \in 1..Len(zipped) :
                        /\ zipped[i].key.v = k
                        /\ \A j \in (i + 1)..Len(zipped) : zipped[j].key.v # k
    IN  IF f # 0 THEN specs[f]
        ELSE IF \E i \in 1..Len(zipped) : zipped[i].key.type # "str"
        THEN Raise("ValidationError")
        ELSE Ok([attributes |-> attrs,
                 members |-> [k \in {zipped[i].key.v : i \in 1..Len(zipped)}
                                |-> specs[last(k)].val]])

\* What a function that iterates over a dict sees: its keys, which are str.
ElementsOf(arrays) == [i \in 1..Len(arrays.keys) |-> PyStr(arrays.keys[i])]

\* CosemMultiscaleGroupV1.from_xarrays: normalize_chunks is handed the dict
\* itself, whose elements under iteration are its keys; the loop variables
\* arr, cnks, key are bound to zip(arrays.values(), arrays.keys(), _chunks), in
\* that order.
CosemMultiscaleGroupV1_from_xarrays(arrays, chunks, name) ==
    LET c == normalize_chunks(ElementsOf(arrays), chunks)
        attrs == CosemGroupMetadataV1_from_xarrays(arrays, name)
    IN  IF ~IsOk(c) THEN c
        ELSE IF ~IsOk(attrs) THEN attrs
        ELSE GroupOf(attrs.val,
                     [i \in 1..Min(Len(arrays.keys), Len(c.val)) |->
                        [arr |-> arrays.values[i],
                         cnks |-> PyStr(arrays.keys[i]),
                         key |-> PyTuple(c.val[i])]])

\* CosemMultiscaleGroupV2.from_xarrays: the loop variables arr, cnks, key are
\* bound to zip(arrays, _chunks, _paths).
CosemMultiscaleGroupV2_from_xarrays(arrays, chunks, paths, name) ==
    LET p == normalize_paths(arrays, paths)
        c == normalize_chunks(arrays, chunks)
        attrs == CosemGroupMetadataV2_from_xarrays(arrays, Explicit(p), name)
    IN  IF ~IsOk(c) THEN c
        ELSE IF ~IsOk(attrs) THEN attrs
        ELSE GroupOf(attrs.val,
                     [i \in 1..Min(Len(arrays), Min(Len(c.val), Len(p))) |->
                        [arr |-> arrays[i],
                         cnks |-> PyTuple(c.val[i]),
                         key |-> PyStr(p[i])]])

\* multiscale_group(arrays=..., chunks=...): the body calls
\* CosemMultiscaleGroupV1.from_xarrays(arrays), which leaves chunks and name at
\* their defaults, "auto" and None.
multiscale_group(arrays, chunks) ==
    CosemMultiscaleGroupV1_from_xarrays(arrays, Auto, "<None>")

---------------------------------------------------------------------------
(* The specification of STTransform: construction from explicit fields,    *)
(* coordinate generation, and inference from the generated coordinates.    *)

\* The axis names of a transform over n axes.
AxesOf(n) == SubSeq(DimOrder, 1, n)

CtorArgs ==
    [order : Orders,
     axes : {AxesOf(n) : n \in 0..MaxDims},
     units : SeqsUpTo(UnitNames, MaxDims),
     translate : SeqsUpTo(TranslateVals, MaxDims),
     scale : SeqsUpTo(ScaleVals, MaxDims)]

InitT ==
    /\ op = "none"
    /\ args \in CtorArgs
    /\ self = None
    /\ ret = None

\* STTransform(order=..., axes=..., units=..., translate=..., scale=...)
CallConstruct ==
    /\ op = "none"
    /\ op' = "STTransform"
    /\ ret' = Construct(args.order, args.axes, args.units, args.translate,
                        args.scale)
    /\ self' = IF IsOk(ret') THEN ret'.val ELSE None
    /\ UNCHANGED args

\* self.to_coords(shape), for a shape with one extent per axis
CallToCoords ==
    /\ op = "STTransform"
    /\ self # None
    /\ \E shape \in [1..Len(self.axes) -> 1..MaxSize] :
        /\ op' = "to_coords"
        /\ args' = [shape |-> shape]
        /\ ret' = Ok(to_coords(self, shape))
    /\ UNCHANGED self

\* STTransform.from_coords(coords, self.order), coords being what to_coords
\* returned
CallInferBack ==
    /\ op = "to_coords"
    /\ op' = "from_coords"
    /\ args' = [coords |-> ret.val, order |-> self.order]
    /\ ret' = from_coords(ret.val, self.order)
    /\ UNCHANGED self

\* STTransform.from_xarray(DataArray(coords=coords), reverse_axes), coords being
\* what to_coords returned and reverse_axes set for a transform of order "F"
CallInferBackXarray ==
    /\ op = "to_coords"
    /\ op' = "from_xarray"
    /\ args' = [array |-> DataArray(ret.val, None),
                reverse_axes |-> (self.order = "F")]
    /\ ret' = from_xarray(args'.array, args'.reverse_axes)
    /\ UNCHANGED self

NextT ==
    \/ CallConstruct
    \/ CallToCoords
    \/ CallInferBack
    \/ CallInferBackXarray

SpecT == InitT /\ [][NextT]_vars

(* Round trip and construction. *)

LengthsAgree(t) ==
    /\ Len(t.axes) = Len(t.units)
    /\ Len(t.units) = Len(t.translate)
    /\ Len(t.translate) = Len(t.scale)

\* A valid transform: equal-length fields and every scale positive.
ValidTransform(t) ==
    /\ LengthsAgree(t)
    /\ \A i \in 1..Len(t.scale) : t.scale[i] > 0

\* C1 (as claimed): for every valid transform T (self) of either order and
\* every shape with all extents >= 2, from_coords(T.to_coords(shape), T.order)
\* returns a transform equal to T in axes, units, translate, scale and order.
C1_RoundTrip ==
    (/\ op = "from_coords"
     /\ self.order \in {"C", "F"}
     /\ ValidTransform(self)
     /\ \A i \in 1..Len(args.coords) : Len(args.coords[i].values) >= 2)
    => (IsOk(ret) /\ ret.val = self)

\* C1, by way of from_xarray: the same round trip with the coordinates wrapped
\* in a DataArray and read back with reverse_axes set for order "F".
C1_RoundTripViaXarray ==
    (/\ op = "from_xarray"
     /\ self.order \in {"C", "F"}
     /\ ValidTransform(self)
     /\ \A i \in 1..Len(args.array.coords) :
            Len(args.array.coords[i].values) >= 2)
    => (IsOk(ret) /\ ret.val = self)

\* C1, for order "C" alone: the round trip through from_coords returns T.
C1_RoundTripRowMajor ==
    (/\ op = "from_coords"
     /\ self.order = "C"
     /\ ValidTransform(self)
     /\ \A i \in 1..Len(args.coords) : Len(args.coords[i].values) >= 2)
    => (IsOk(ret) /\ ret.val = self)

\* C4: construction from fields whose lengths are not all equal fails with a
\* validation error and leaves no instance; every instance that exists, built
\* directly or by inference, has four per-axis sequences of one length.
C4_LengthInvariant ==
    /\ (op = "STTransform" /\ ~LengthsAgree(args))
        => (ret = Raise("ValidationError") /\ self = None)
    /\ (self # None => LengthsAgree(self))
    /\ (op \in {"from_coords", "from_xarray"} /\ IsOk(ret)
        => LengthsAgree(ret.val))

\* A construction with exactly one field of a different length was refused.
C4_Witness ==
    /\ op = "STTransform"
    /\ Len(args.axes) = 2 /\ Len(args.units) = 2 /\ Len(args.translate) = 2
    /\ Len(args.scale) = 1
    /\ ret = Raise("ValidationError")
    /\ self = None

\* C15 (as claimed): a zero or negative spacing is refused whether inferred or
\* handed to the constructor, so that no STTransform with a scale <= 0 exists.
C15_NoNonPositiveScale ==
    /\ self # None => \A i \in 1..Len(self.scale) : self.scale[i] > 0
    /\ (op \in {"from_coords", "from_xarray"} /\ IsOk(ret))
        => \A i \in 1..Len(ret.val.scale) : ret.val.scale[i] > 0

\* The coordinates an inference was applied to.
InferredFrom == IF op = "from_coords" THEN args.coords ELSE args.array.coords

\* C15 (amended): a zero spacing between the first two samples of a coordinate
\* makes the inference raise, and every transform an inference returns has all
\* its scales positive; the constructor checks only the lengths and returns an
\* instance with the scale it was given, positive or not.
C15_InferredScalePositive ==
    /\ (op \in {"from_coords", "from_xarray"} /\ IsOk(ret))
        => \A i \in 1..Len(ret.val.scale) : ret.val.scale[i] > 0
    /\ (/\ op \in {"from_coords", "from_xarray"}
        /\ \E i \in 1..Len(InferredFrom) :
            /\ Len(InferredFrom[i].values) >= 2
            /\ InferredFrom[i].values[1] = InferredFrom[i].values[2])
        => IsError(ret)
    /\ (op = "STTransform" /\ LengthsAgree(args))
        => /\ ret = Ok(STTransform(args.order, args.axes, args.units,
                                   args.translate, args.scale))
           /\ self = ret.val

\* The coordinates generated from a transform of scale (1, 0) were handed to
\* from_coords, which raised.
C15_Witness ==
    /\ op = "from_coords"
    /\ self.scale = <<1, 0>>
    /\ \A i \in 1..Len(args.coords) : Len(args.coords[i].values) >= 2
    /\ ret = Raise("AssertionError")

\* C16 (as claimed): the i-th coordinate to_coords returns is named after
\* axes[n-1-i] for order "F" and axes[i] for order "C", and is generated from
\* the scale, translate and unit of that same axis.
C16_ColumnMajorTraversal ==
    (op = "to_coords" /\ self.order \in {"C", "F"}) =>
        LET n == Len(self.axes)
            pos(i) == IF self.order = "F" THEN n + 1 - i ELSE i
        IN  /\ Len(ret.val) = n
            /\ \A i \in 1..n :
                /\ ret.val[i].dim = self.axes[pos(i)]
                /\ ret.val[i].units = self.units[pos(i)]
                /\ ret.val[i].values
                     = [k \in 1..args.shape[i] |->
                          self.translate[pos(i)] + (k - 1) * self.scale[pos(i)]]

\* C16, for order "C" alone.
C16_RowMajorTraversal ==
    (op = "to_coords" /\ self.order = "C") =>
        /\ Len(ret.val) = Len(self.axes)
        /\ \A i \in 1..Len(self.axes) :
            /\ ret.val[i].dim = self.axes[i]
            /\ ret.val[i].units = self.units[i]
            /\ ret.val[i].values
                 = [k \in 1..args.shape[i] |->
                      self.translate[i] + (k - 1) * self.scale[i]]

---------------------------------------------------------------------------
(* The specification of inference: from_coords and from_xarray applied to  *)
(* the coordinates of an arbitrary labeled array.                          *)

\* The coordinates of an array of n dimensions
CoordsOf(n) ==
    {c \in [1..n -> [dim : {DimOrder[i] : i \in 1..n}, units : CoordUnits,
                     values : SeqsUpTo(CoordVals, MaxLen)]] :
        \A i \in 1..n : c[i].dim = DimOrder[i]}

InitI ==
    /\ op = "none"
    /\ \E n \in 0..MaxDims : \E c \in CoordsOf(n) :
            args = [array |-> DataArray(c, None)]
    /\ self = None
    /\ ret = None

\* STTransform.from_coords(tuple(array.coords.values()), order)
CallFromCoords ==
    /\ op = "none"
    /\ \E order \in Orders :
        /\ op' = "from_coords"
        /\ args' = [coords |-> args.array.coords, order |-> order]
        /\ ret' = from_coords(args.array.coords, order)
    /\ UNCHANGED self

\* STTransform.from_xarray(array, reverse_axes)
CallFromXarray ==
    /\ op = "none"
    /\ \E reverse_axes \in BOOLEAN :
        /\ op' = "from_xarray"
        /\ args' = [array |-> args.array, reverse_axes |-> reverse_axes]
        /\ ret' = from_xarray(args.array, reverse_axes)
    /\ UNCHANGED self

NextI == CallFromCoords \/ CallFromXarray

SpecI == InitI /\ [][NextI]_vars

\* A coordinate from which a spacing can be inferred: at least two samples, the
\* first two of them different.
AdmitsInference(c) == Len(c.values) >= 2 /\ c.values[1] # c.values[2]

\* C6: for an array whose coordinates all admit inference, from_xarray with
\* reverse_axes yields order "F" and the axes of the call without reverse_axes
\* reversed, and that call yields order "C"; units, translate and scale are
\* reversed with the axes, every axis keeping the values of its own coordinate.
C6_OrderReversal ==
    (/\ op = "from_xarray"
     /\ \A i \in 1..Len(args.array.coords) :
            AdmitsInference(args.array.coords[i]))
    => LET c == args.array.coords
           n == Len(c)
           pos(i) == IF args.reverse_axes THEN n + 1 - i ELSE i
           fwd == from_xarray(args.array, FALSE)
       IN  /\ IsOk(ret) /\ IsOk(fwd)
           /\ fwd.val.order = "C"
           /\ ret.val.order = (IF args.reverse_axes THEN "F" ELSE "C")
           /\ args.reverse_axes =>
                /\ ret.val.axes = Reversed(fwd.val.axes)
                /\ ret.val.units = Reversed(fwd.val.units)
                /\ ret.val.translate = Reversed(fwd.val.translate)
                /\ ret.val.scale = Reversed(fwd.val.scale)
           /\ Len(ret.val.axes) = n
           /\ \A i \in 1..n :
                /\ ret.val.axes[i] = c[pos(i)].dim
                /\ ret.val.translate[i] = c[pos(i)].values[1]
                /\ ret.val.scale[i]
                      = Abs(c[pos(i)].values[2] - c[pos(i)].values[1])
                /\ ret.val.units[i]
                      = (IF c[pos(i)].units = NoUnits THEN "m"
                         ELSE c[pos(i)].units)

\* A two-dimensional array read with reverse_axes: the axes come out reversed.
C6_Witness ==
    /\ op = "from_xarray"
    /\ args.reverse_axes
    /\ IsOk(ret)
    /\ ret.val.order = "F"
    /\ ret.val.axes = <<"y", "z">>
    /\ ret.val.translate = <<3, 1>>
    /\ ret.val.units = <<"nm", "m">>

\* C7: inference over coordinates one of which has its first two values equal
\* fails, with the assertion's error when that coordinate is the first the
\* loop cannot use; when inference succeeds every axis has translate = a and
\* scale = |b - a| for the first two values a, b of its coordinate, which is
\* b - a for a < b, and every scale is positive.
C7_Positivity ==
    op = "from_coords" =>
        LET c == args.coords
        IN  /\ (\E i \in 1..Len(c) :
                    Len(c[i].values) >= 2 /\ c[i].values[1] = c[i].values[2])
                => IsError(ret)
            /\ (\E i \in 1..Len(c) :
                    /\ Len(c[i].values) >= 2 /\ c[i].values[1] = c[i].values[2]
                    /\ \A j \in 1..(i - 1) : AdmitsInference(c[j]))
                => ret = Raise("AssertionError")
            /\ IsOk(ret) =>
                \A i \in 1..Len(c) :
                    /\ ret.val.translate[i] = c[i].values[1]
                    /\ c[i].values[1] < c[i].values[2]
                        => ret.val.scale[i] = c[i].values[2] - c[i].values[1]
                    /\ ret.val.scale[i] > 0
            /\ (\A i \in 1..Len(c) : AdmitsInference(c[i])) => IsOk(ret)

\* Inference over a usable coordinate followed by one that starts 3, 3 failed.
C7_Witness ==
    /\ op = "from_coords"
    /\ Len(args.coords) = 2
    /\ args.coords[1].values = <<1, 3>>
    /\ args.coords[2].values = <<3, 3, 1>>
    /\ ret = Raise("AssertionError")

\* C8: inference fails whenever one of the coordinates, at whatever position,
\* has fewer than 2 elements; the error is the length check's when that
\* coordinate is the first the loop cannot use.
C8_InsufficientSamples ==
    op = "from_coords" =>
        LET c == args.coords
        IN  /\ (\E i \in 1..Len(c) : Len(c[i].values) < 2) => IsError(ret)
            /\ (\E i \in 1..Len(c) :
                    /\ Len(c[i].values) < 2
                    /\ \A j \in 1..(i - 1) : AdmitsInference(c[j]))
                => ret = Raise("ValueError")

\* Inference over a usable coordinate followed by one of a single sample failed.
C8_Witness ==
    /\ op = "from_coords"
    /\ Len(args.coords) = 2
    /\ args.coords[1].values = <<1, 3, 3>>
    /\ args.coords[2].values = <<3>>
    /\ ret = Raise("ValueError")

---------------------------------------------------------------------------
(* The specification of the metadata builders: the four from_xarrays       *)
(* applied to an ordered mapping of scale name -> array.                   *)

\* the largest number of arrays of a multiscale collection
MaxArrays == 2

ScaleNames == {"s0", "s1", "full"}
PathNames == {"a", "b"}
ChunkShapes == {<<1, 1>>, <<2, 1>>}
\* the name of the collection: None or a str
GroupNames == {"<None>", "foo"}

\* The first coordinate of a sample array: two that admit inference, one with
\* a single sample, one whose first two samples coincide.
SampleZ == {<<0, 2, 4>>, <<1, 2>>, <<5>>, <<3, 3>>}

\* Two-dimensional arrays over (z, y), chunked or not.
SampleArrays ==
    {DataArray(<<Coord("z", "nm", z), Coord("y", NoUnits, <<0, 4>>)>>, ch) :
        z \in SampleZ, ch \in {None, Chunked(<<1, 2>>)}}

InjectiveSeqs(S, n) ==
    {q \in [1..n -> S] : \A i, j \in 1..n : q[i] = q[j] => i = j}

PathPolicies == {Auto} \cup {Explicit(l) : l \in SeqsUpTo(PathNames, MaxArrays)}
ChunkPolicies ==
    {Auto} \cup {Explicit(l) : l \in SeqsUpTo(ChunkShapes, MaxArrays)}

InitM ==
    /\ op = "none"
    /\ \E n \in 0..MaxArrays :
        \E keys \in InjectiveSeqs(ScaleNames, n) :
            \E values \in [1..n -> SampleArrays] :
                args = [arrays |-> Dict(keys, values)]
    /\ self = None
    /\ ret = None

\* CosemGroupMetadataV1.from_xarrays(arrays, name)
CallMetaV1 ==
    /\ op = "none"
    /\ \E name \in GroupNames :
        /\ op' = "CosemGroupMetadataV1.from_xarrays"
        /\ args' = [arrays |-> args.arrays, name |-> name]
        /\ ret' = CosemGroupMetadataV1_from_xarrays(args.arrays, name)
    /\ UNCHANGED self

\* CosemGroupMetadataV2.from_xarrays(list(arrays.values()), paths, name)
CallMetaV2 ==
    /\ op = "none"
    /\ \E name \in GroupNames, paths \in PathPolicies :
        /\ op' = "CosemGroupMetadataV2.from_xarrays"
        /\ args' = [arrays |-> args.arrays, paths |-> paths, name |-> name]
        /\ ret' = CosemGroupMetadataV2_from_xarrays(args.arrays.values, paths,
                                                    name)
    /\ UNCHANGED self

\* CosemMultiscaleGroupV1.from_xarrays(arrays, chunks, name)
CallGroupV1 ==
    /\ op = "none"
    /\ \E name \in GroupNames, chunks \in ChunkPolicies :
        /\ op' = "CosemMultiscaleGroupV1.from_xarrays"
        /\ args' = [arrays |-> args.arrays, chunks |-> chunks, name |-> name]
        /\ ret' = CosemMultiscaleGroupV1_from_xarrays(args.arrays, chunks, name)
    /\ UNCHANGED self

\* CosemMultiscaleGroupV2.from_xarrays(list(arrays.values()), chunks, paths,
\* name)
CallGroupV2 ==
    /\ op = "none"
    /\ \E name \in GroupNames, chunks \in ChunkPolicies, paths \in PathPolicies :
        /\ op' = "CosemMultiscaleGroupV2.from_xarrays"
        /\ args' = [arrays |-> args.arrays, chunks |-> chunks, paths |-> paths,
                    name |-> name]
        /\ ret' = CosemMultiscaleGroupV2_from_xarrays(args.arrays.values,
                                                      chunks, paths, name)
    /\ UNCHANGED self

\* multiscale_group(arrays=arrays, chunks=chunks)
CallMultiscaleGroup ==
    /\ op = "none"
    /\ \E chunks \in ChunkPolicies :
        /\ op' = "multiscale_group"
        /\ args' = [arrays |-> args.arrays, chunks |-> chunks]
        /\ ret' = multiscale_group(args.arrays, chunks)
    /\ UNCHANGED self

\* STTransform.from_coords(tuple(arr.coords.values()), order) for one array arr
\* of the mapping
CallFromCoordsOf ==
    /\ op = "none"
    /\ \E i \in 1..Len(args.arrays.values), order \in Orders :
        /\ op' = "from_coords"
        /\ args' = [arrays |-> args.arrays,
                    coords |-> args.arrays.values[i].coords, order |-> order]
        /\ ret' = from_coords(args.arrays.values[i].coords, order)
    /\ UNCHANGED self

NextM ==
    \/ CallMetaV1
    \/ CallMetaV2
    \/ CallGroupV1
    \/ CallGroupV2
    \/ CallMultiscaleGroup
    \/ CallFromCoordsOf

SpecM == InitM /\ [][NextM]_vars

\* Every array of the mapping has coordinates that all admit inference.
AllAdmitInference(arrays) ==
    \A i \in 1..Len(arrays.values) :
        \A d \in 1..Len(arrays.values[i].coords) :
            AdmitsInference(arrays.values[i].coords[d])

\* A chunk policy that normalize_chunks resolves: automatic, or one entry per
\* array.
ChunksResolve(arrays, chunks) ==
    chunks.kind = "auto" \/ Len(chunks.list) = Len(arrays.values)

\* The transform from_coords infers from coordinates c that admit inference,
\* in order "C".
ExpectedTransform(c) ==
    [order |-> "C",
     axes |-> [d \in 1..Len(c) |-> c[d].dim],
     units |-> [d \in 1..Len(c) |->
                    IF c[d].units = NoUnits THEN "m" ELSE c[d].units],
     translate |-> [d \in 1..Len(c) |-> c[d].values[1]],
     scale |-> [d \in 1..Len(c) |-> Abs(c[d].values[2] - c[d].values[1])]]

\* C2 (as claimed): CosemMultiscaleGroupV1.from_xarrays returns a group whose
\* member keys are exactly the input scale names, each mapped to the array
\* specification (shape, transform) built from the array of that name.
C2_MemberKeys ==
    (/\ op = "CosemMultiscaleGroupV1.from_xarrays"
     /\ AllAdmitInference(args.arrays)
     /\ ChunksResolve(args.arrays, args.chunks))
    => /\ IsOk(ret)
       /\ DOMAIN ret.val.members
            = {args.arrays.keys[i] : i \in 1..Len(args.arrays.keys)}
       /\ \A i \in 1..Len(args.arrays.keys) :
            LET m == ret.val.members[args.arrays.keys[i]]
            IN  /\ m.shape = ShapeOf(args.arrays.values[i])
                /\ m.attributes.transform
                     = ExpectedTransform(args.arrays.values[i].coords)

\* The chunk shapes a chunk policy resolves to: the explicit list, or per array
\* its own chunking if its data is chunked and else its full shape.
ExpectedChunks(arrays, chunks) ==
    [i \in 1..Len(arrays.values) |->
        IF chunks.kind = "explicit" THEN chunks.list[i]
        ELSE IF arrays.values[i].chunks.tag = "None"
             THEN ShapeOf(arrays.values[i])
             ELSE arrays.values[i].chunks.val]

\* C3 (as claimed): in the group CosemMultiscaleGroupV1.from_xarrays returns,
\* the member built from the i-th array has the i-th entry of the resolved
\* chunk policy as its chunks.
C3_ChunkAssignment ==
    (/\ op = "CosemMultiscaleGroupV1.from_xarrays"
     /\ AllAdmitInference(args.arrays)
     /\ ChunksResolve(args.arrays, args.chunks))
    => /\ IsOk(ret)
       /\ \A i \in 1..Len(args.arrays.keys) :
            /\ args.arrays.keys[i] \in DOMAIN ret.val.members
            /\ ret.val.members[args.arrays.keys[i]].chunks
                 = ExpectedChunks(args.arrays, args.chunks)[i]

\* C5 (as claimed): CosemGroupMetadataV2.from_xarrays and
\* CosemMultiscaleGroupV2.from_xarrays fail when the explicit list of paths
\* has a length other than the number of arrays.
C5_PathsLengthMismatch ==
    (/\ op \in {"CosemGroupMetadataV2.from_xarrays",
                "CosemMultiscaleGroupV2.from_xarrays"}
     /\ args.paths.kind = "explicit"
     /\ Len(args.paths.list) # Len(args.arrays.values))
    => IsError(ret)

\* C5, for the group builder alone.
C5_PathsLengthMismatchGroup ==
    (/\ op = "CosemMultiscaleGroupV2.from_xarrays"
     /\ args.paths.kind = "explicit"
     /\ Len(args.paths.list) # Len(args.arrays.values))
    => IsError(ret)

\* C9: CosemGroupMetadataV1.from_xarrays over arrays that all admit inference
\* returns a document with exactly one multiscale entry, carrying the given
\* name, whose datasets are one per item of the mapping and in its order, the
\* i-th with the i-th scale name as path and the transform inferred from the
\* i-th array; if some array does not admit inference it returns nothing.
C9_BuildV1 ==
    op = "CosemGroupMetadataV1.from_xarrays" =>
        LET a == args.arrays
        IN  IF AllAdmitInference(a)
            THEN /\ IsOk(ret)
                 /\ Len(ret.val.multiscales) = 1
                 /\ ret.val.multiscales[1].name = args.name
                 /\ Len(ret.val.multiscales[1].datasets) = Len(a.keys)
                 /\ \A i \in 1..Len(a.keys) :
                      /\ ret.val.multiscales[1].datasets[i].path = a.keys[i]
                      /\ ret.val.multiscales[1].datasets[i].transform
                           = ExpectedTransform(a.values[i].coords)
                      /\ Ok(ret.val.multiscales[1].datasets[i].transform)
                           = from_xarray(a.values[i], FALSE)
            ELSE IsError(ret)

\* A document built from two arrays keyed "full" and "s0", in that order.
C9_Witness ==
    /\ op = "CosemGroupMetadataV1.from_xarrays"
    /\ args.arrays.keys = <<"full", "s0">>
    /\ args.name = "foo"
    /\ IsOk(ret)
    /\ ret.val.multiscales[1].datasets[1].path = "full"
    /\ ret.val.multiscales[1].datasets[2].path = "s0"
    /\ ret.val.multiscales[1].datasets[1].transform.scale = <<1, 4>>
    /\ ret.val.multiscales[1].datasets[2].transform.scale = <<2, 4>>

\* The automatic names, in order.
AutoNames == <<"s0", "s1", "s2", "s3">>

\* C10: CosemGroupMetadataV2.from_xarrays returns a document with exactly one
\* multiscale entry; with the automatic policy over n arrays its datasets are
\* s0, ..., s{n-1} in order (none for n = 0), and with an explicit list of n
\* paths they are that list.
C10_AutoPaths ==
    op = "CosemGroupMetadataV2.from_xarrays" =>
        LET n == Len(args.arrays.values)
        IN  /\ IsOk(ret)
            /\ Len(ret.val.multiscales) = 1
            /\ ret.val.multiscales[1].name = args.name
            /\ args.paths.kind = "auto"
                => ret.val.multiscales[1].datasets = SubSeq(AutoNames, 1, n)
            /\ (args.paths.kind = "explicit" /\ Len(args.paths.list) = n)
                => ret.val.multiscales[1].datasets = args.paths.list

\* The automatic policy over two arrays named them s0 and s1.
C10_Witness ==
    /\ op = "CosemGroupMetadataV2.from_xarrays"
    /\ args.paths = Auto
    /\ Len(args.arrays.values) = 2
    /\ IsOk(ret)
    /\ ret.val.multiscales[1].datasets = <<"s0", "s1">>

---------------------------------------------------------------------------
(* The group models. *)

\* The dataset paths a group's attributes document lists: the path of each
\* scale descriptor (v1), or the path strings themselves (v2).
DatasetPaths(group, v1) ==
    LET ds == group.attributes.multiscales[1].datasets
    IN  {IF v1 THEN ds[i].path ELSE ds[i] : i \in 1..Len(ds)}

\* C11 (as claimed): in every group model CosemMultiscaleGroupV1.from_xarrays
\* or CosemMultiscaleGroupV2.from_xarrays returns, the set of member keys is
\* the set of dataset paths of the group's attributes document.
C11_KeysMatchPaths ==
    (/\ op \in {"CosemMultiscaleGroupV1.from_xarrays",
                "CosemMultiscaleGroupV2.from_xarrays"}
     /\ IsOk(ret))
    => DOMAIN ret.val.members
         = DatasetPaths(ret.val, op = "CosemMultiscaleGroupV1.from_xarrays")

\* C11, for the calls whose explicit path list has one path per array, and
\* for the automatic policy.
C11_KeysMatchPathsSameLength ==
    (/\ op \in {"CosemMultiscaleGroupV1.from_xarrays",
                "CosemMultiscaleGroupV2.from_xarrays"}
     /\ IsOk(ret)
     /\ op = "CosemMultiscaleGroupV2.from_xarrays"
        => (args.paths.kind = "auto"
            \/ Len(args.paths.list) = Len(args.arrays.values)))
    => DOMAIN ret.val.members
         = DatasetPaths(ret.val, op = "CosemMultiscaleGroupV1.from_xarrays")

\* C12 (as claimed): multiscale_group(arrays=a, chunks=c) returns the group
\* CosemMultiscaleGroupV1.from_xarrays(a, chunks=c) returns, in which every
\* array has the chunk shape c gives it.
C12_ChunksHonoured ==
    (/\ op = "multiscale_group"
     /\ args.chunks.kind = "explicit"
     /\ AllAdmitInference(args.arrays)
     /\ ChunksResolve(args.arrays, args.chunks))
    => /\ IsOk(ret)
       /\ ret = CosemMultiscaleGroupV1_from_xarrays(args.arrays, args.chunks,
                                                    "<None>")
       /\ \A i \in 1..Len(args.arrays.keys) :
            /\ args.arrays.keys[i] \in DOMAIN ret.val.members
            /\ ret.val.members[args.arrays.keys[i]].chunks
                 = ExpectedChunks(args.arrays, args.chunks)[i]

\* C12, as to the outcome alone: multiscale_group(arrays=a, chunks=c) ends as
\* CosemMultiscaleGroupV1.from_xarrays(a, chunks=c) does.
C12_SameOutcome ==
    op = "multiscale_group"
    => ret = CosemMultiscaleGroupV1_from_xarrays(args.arrays, args.chunks,
                                                 "<None>")

\* C14: when the inference fails for one of the inputs, at whatever position,
\* from_coords, CosemGroupMetadataV1.from_xarrays and
\* CosemMultiscaleGroupV1.from_xarrays raise and return nothing, neither a
\* transform, document or group nor a part of one; the error is the one the
\* inference raised, unless normalize_chunks, which the group builder calls
\* before any inference, has failed already.
C14_AllOrNothing ==
    /\ (/\ op = "from_coords"
        /\ \E d \in 1..Len(args.coords) : ~AdmitsInference(args.coords[d]))
       => (/\ ret.tag \in {"ValueError", "AssertionError"}
           /\ DOMAIN ret = {"tag"})
    /\ (/\ op \in {"CosemGroupMetadataV1.from_xarrays",
                   "CosemMultiscaleGroupV1.from_xarrays"}
        /\ ~AllAdmitInference(args.arrays))
       => (/\ IsError(ret)
           /\ DOMAIN ret = {"tag"}
           /\ (op = "CosemGroupMetadataV1.from_xarrays"
               \/ IsOk(normalize_chunks(ElementsOf(args.arrays), args.chunks)))
              => ret.tag \in {"ValueError", "AssertionError"})

\* A document was asked of two arrays, the second of which has a single sample
\* along z: the call raised the error of the length check.
C14_Witness ==
    /\ op = "CosemGroupMetadataV1.from_xarrays"
    /\ Len(args.arrays.values) = 2
    /\ args.arrays.values[1].coords[1].values = <<0, 2, 4>>
    /\ args.arrays.values[2].coords[1].values = <<5>>
    /\ ret = Raise("ValueError")

---------------------------------------------------------------------------
(* The specification of the coordinate round trip: the transform of a      *)
(* labeled array with uniformly spaced coordinates is inferred, and the    *)
(* coordinates are generated again from it for the shape of the array.     *)

\* The coordinates of an array of n dimensions, each uniformly spaced and
\* ascending, with at least 2 samples.
UniformCoordsOf(n) ==
    {c \in [1..n -> {Coord(dim, u, [k \in 1..len |-> start + (k - 1) * step]) :
                        dim \in {DimOrder[i] : i \in 1..n}, u \in CoordUnits,
                        len \in 2..MaxSize, start \in TranslateVals,
                        step \in ScaleVals \ {0}}] :
        \A i \in 1..n : c[i].dim = DimOrder[i]}

InitR ==
    /\ op = "none"
    /\ \E n \in 0..MaxDims : \E c \in UniformCoordsOf(n) :
            args = [array |-> DataArray(c, None)]
    /\ self = None
    /\ ret = None

\* t.to_coords(array.shape), t being the transform from_xarray returned
CallRegenerate ==
    /\ op = "from_xarray"
    /\ IsOk(ret)
    /\ op' = "to_coords"
    /\ self' = ret.val
    /\ args' = [array |-> args.array, reverse_axes |-> args.reverse_axes,
                shape |-> ShapeOf(args.array)]
    /\ ret' = Ok(to_coords(ret.val, ShapeOf(args.array)))

NextR == CallFromXarray \/ CallRegenerate

SpecR == InitR /\ [][NextR]_vars

\* C13: for an array with uniformly spaced, ascending coordinates of at least
\* 2 samples, the coordinates generated from from_xarray(array) for the shape
\* of the array have, axis by axis in the dimension order of the array, the
\* dimension names and the values of the array's own coordinates.
C13_CoordinateRoundTrip ==
    (op = "to_coords" /\ ~args.reverse_axes) =>
        LET c == args.array.coords
        IN  /\ IsOk(ret)
            /\ Len(ret.val) = Len(c)
            /\ \A i \in 1..Len(c) :
                /\ ret.val[i].dim = c[i].dim
                /\ ret.val[i].values = c[i].values

\* The coordinates of a 2 x 3 array, of spacings 2 and 1, were generated again.
C13_Witness ==
    /\ op = "to_coords"
    /\ ~args.reverse_axes
    /\ Len(args.array.coords) = 2
    /\ args.array.coords[1].values = <<1, 3>>
    /\ args.array.coords[2].values = <<0, 1, 2>>
    /\ ret.val[1].values = <<1, 3>>
    /\ ret.val[2].values = <<0, 1, 2>>
    /\ ret.val[1].dim = "z"

---------------------------------------------------------------------------
(* The specification of inference on two collections of coordinates that   *)
(* agree on everything from_coords is said to read: per axis the dimension *)
(* name, the units and the first two samples.                              *)

\* the samples after the second, evenly spaced with the first two or not
Tails == {<<>>, <<5>>, <<1, 1>>}

\* Per axis, what two collections share (units and the first two samples) and
\* the tail of each.
PairsOf(n) ==
    [1..n -> [units : CoordUnits, c0 : CoordVals, c1 : CoordVals,
              first : Tails, second : Tails]]

InitH ==
    /\ op = "none"
    /\ \E n \in 0..MaxDims : \E p \in PairsOf(n) :
            args = [first |-> [i \in 1..n |->
                        Coord(DimOrder[i], p[i].units,
                              <<p[i].c0, p[i].c1>> \o p[i].first)],
                    second |-> [i \in 1..n |->
                        Coord(DimOrder[i], p[i].units,
                              <<p[i].c0, p[i].c1>> \o p[i].second)]]
    /\ self = None
    /\ ret = None

\* STTransform.from_coords(first, order) and STTransform.from_coords(second,
\* order), two calls of the class method on the two collections
CallFromCoordsPair ==
    /\ op = "none"
    /\ \E order \in Orders :
        /\ op' = "from_coords"
        /\ args' = [first |-> args.first, second |-> args.second,
                    order |-> order]
        /\ ret' = [first |-> from_coords(args.first, order),
                   second |-> from_coords(args.second, order)]
    /\ UNCHANGED self

NextH == CallFromCoordsPair

SpecH == InitH /\ [][NextH]_vars

\* Two collections agree on what inference reads.
AgreeOnFirstTwo(a, b) ==
    /\ Len(a) = Len(b)
    /\ \A i \in 1..Len(a) :
        /\ a[i].dim = b[i].dim
        /\ a[i].units = b[i].units
        /\ Len(a[i].values) >= 2
        /\ Len(b[i].values) >= 2
        /\ a[i].values[1] = b[i].values[1]
        /\ a[i].values[2] = b[i].values[2]

\* C17: from_coords applied, with the same order, to two collections that agree
\* per axis on the dimension name, the units and the first two samples returns
\* equal transforms or raises the same error, whatever the later samples are.
C17_FirstTwoSamplesOnly ==
    (op = "from_coords" /\ AgreeOnFirstTwo(args.first, args.second))
        => ret.first = ret.second

\* Two collections of different lengths, one evenly spaced and one not, gave
\* the same transform of scale 2.
C17_Witness ==
    /\ op = "from_coords"
    /\ Len(args.first) = 1
    /\ args.first[1].values = <<1, 3, 5>>
    /\ args.second[1].values = <<1, 3, 1, 1>>
    /\ IsOk(ret.first)
    /\ ret.first = ret.second
    /\ ret.first.val.scale = <<2>>

===========================================================================
